---- MODULE Spec2Model ----
(***************************************************************************)
(* Model of vikunja_bot.py: the credential store (a JSON file), the        *)
(* per-chat session kept in context.user_data, the project cache, and the  *)
(* handlers of the Telegram conversation controller.                       *)
(*                                                                         *)
(* Every Python function is an operator that takes a "world" w (the        *)
(* chat's user_data, the credentials file, the clock, the log of external  *)
(* interactions of the running handler) and returns the SET of its         *)
(* possible results [w |-> world after the call, ret |-> return value]:    *)
(* one result per outcome of the remote calls and file accesses it makes;  *)
(* UNION {f(r) : r \in g(w)} is the call of g followed by the call of f.   *)
(* Every handler is one action, which takes one of the handler's results.  *)
(***************************************************************************)
EXTENDS Integers, Sequences, FiniteSets, TLC

VARIABLES user_data, credentials_file, login_conv, task_conv, buttons, clock,
          last

vars ==
    <<user_data, credentials_file, login_conv, task_conv, buttons, clock, last>>

----------------------------------------------------------------------------
(* Values *)

NONE == "None"

Chats == {"c1", "c2"}

\* the chats that send updates; the other chats are known from the records
\* they left in the credentials file before the bot was started
Actors == {"c1"}

Usernames == {"alice", "bob"}

Passwords == {"pw"}

\* the token the remote login returns for an account
TokenOf(u) == IF u = "alice" THEN "tok_alice" ELSE "tok_bob"

P1 == [id |-> 1, title |-> <<"I","n","b","o","x">>]

P2 == [id |-> 2, title |-> <<"H","o","m","e">>]

\* project lists GET /projects can answer with
ProjectLists == {<< >>, <<P1>>, <<P2, P1>>}

\* --- Constants (line 32) ---
PROJECT_CACHE_SECONDS == 60

\* --- Conversation States (lines 36) and ConversationHandler.END ---
LOGIN_USERNAME == "LOGIN_USERNAME"

LOGIN_PASSWORD == "LOGIN_PASSWORD"

END == "END"

\* the states of the task conversation, lines 40-41
TASK_LIST_VIEW == "TASK_LIST_VIEW"

TASK_EDIT_VIEW == "TASK_EDIT_VIEW"

TASK_EDIT_DUE == "TASK_EDIT_DUE"

TASKS_PER_PAGE == 5

\* an update without text or button data; a run that rendered no task page
NoInput == << >>

NoPage == [rendered |-> FALSE]

\* a run that found no active task to show
EmptyPage == [rendered |-> FALSE, count |-> 0]

\* bound of the clock, in seconds
MaxClock == 61

\* texts a user types as username and as password, and text.strip()
UsernameTexts == {"alice", " alice ", "bob"}

PasswordTexts == {"pw", " pw"}

strip(text) ==
    CASE text = " alice " -> "alice"
      [] text = " pw" -> "pw"
      [] OTHER -> text

\* what the instrumentation of a handler run starts from
NoStore == [op |-> "none", read |-> TRUE, write |-> "none"]

NoIsAuth == [called |-> FALSE, ret |-> FALSE, logins |-> 0]

NoProjects == [called |-> FALSE, fetch |-> "none", ret |-> << >>]

EmptyDict == << >>

\* context.user_data of a chat without any key, as after user_data.clear();
\* a missing key and a key holding None read the same through .get()
EmptyUserData ==
    [vikunja_token |-> NONE, username |-> NONE, password |-> NONE,
     project_cache |-> EmptyDict, temp_username |-> NONE,
     task_page |-> << >>, selected_task_id |-> NONE]

\* the credentials file: absent, or a JSON object chat id -> record
NoFile == [exists |-> FALSE, creds |-> EmptyDict]

Record(u, p) == [username |-> u, password |-> p]

----------------------------------------------------------------------------
(* Helpers on worlds *)

\* number of occurrences of event x in log ev
RECURSIVE Count(_, _)
Count(ev, x) ==
    IF ev = << >> THEN 0
    ELSE (IF Head(ev) = x THEN 1 ELSE 0) + Count(Tail(ev), x)

Emit(w, x) == [w EXCEPT !.ev = Append(@, x)]

Ret(w, v) == [w |-> w, ret |-> v]

\* mapping m with key k set to v / with key k removed
Put(m, k, v) == [x \in (DOMAIN m) \cup {k} |-> IF x = k THEN v ELSE m[x]]

Del(m, k) == [x \in (DOMAIN m) \ {k} |-> m[x]]

----------------------------------------------------------------------------
(* Credential store, lines 45-102 *)

\* ret is the mapping read; the world notes whether the read raised
load_saved_credentials(w) ==
    IF w.file.exists
    THEN {Ret([w EXCEPT !.readok = TRUE], w.file.creds),
          Ret([w EXCEPT !.readok = FALSE], EmptyDict)}   \* except ...: return {}
    ELSE {Ret([w EXCEPT !.readok = TRUE], EmptyDict)}

\* open(CREDENTIALS_FILE, 'w') + json.dump: done, or raising and caught
WriteFile(w, credentials) ==
    {[w EXCEPT !.file = [exists |-> TRUE, creds |-> credentials],
               !.store.write = "ok"],
     [w EXCEPT !.store.write = "failed"]}

\* os.remove(CREDENTIALS_FILE): done, or raising and caught
RemoveFile(w) ==
    {[w EXCEPT !.file = NoFile, !.store.write = "ok"],
     [w EXCEPT !.store.write = "failed"]}

\* a save that would put the token of the session into the record
save_credentials_with_token(w, chat_id, username, password) ==
    UNION {
        LET credentials == Put(r.ret, chat_id,
                               [username |-> username, password |-> password,
                                vikunja_token |-> r.w.ud.vikunja_token])
            w1 == [r.w EXCEPT !.store = [op |-> "save", read |-> r.w.readok,
                                         write |-> "none"]]
        IN  WriteFile(w1, credentials)
      : r \in load_saved_credentials(w)}

save_credentials(w, chat_id, username, password) ==
    UNION {
        LET credentials == Put(r.ret, chat_id, Record(username, password))
            w1 == [r.w EXCEPT !.store = [op |-> "save", read |-> r.w.readok,
                                         write |-> "none"]]
        IN  WriteFile(w1, credentials)
      : r \in load_saved_credentials(w)}

\* a delete that rewrites the document even when it became empty
delete_keeps_empty_file(w, chat_id) ==
    UNION {
        LET w1 == [r.w EXCEPT !.store = [op |-> "delete", read |-> r.w.readok,
                                         write |-> "none"]]
        IN  IF chat_id \in DOMAIN r.ret
            THEN WriteFile(w1, Del(r.ret, chat_id))
            ELSE {w1}
      : r \in load_saved_credentials(w)}

delete_saved_credentials(w, chat_id) ==
    UNION {
        LET w1 == [r.w EXCEPT !.store = [op |-> "delete", read |-> r.w.readok,
                                         write |-> "none"]]
        IN  IF chat_id \in DOMAIN r.ret
            THEN LET credentials == Del(r.ret, chat_id)
                 IN  IF credentials = EmptyDict
                     THEN (IF w1.file.exists THEN RemoveFile(w1) ELSE {w1})
                     ELSE WriteFile(w1, credentials)
            ELSE {w1}
      : r \in load_saved_credentials(w)}

----------------------------------------------------------------------------
(* Session manager, lines 104-175 *)

get_user_session(w, chat_id) ==
    IF w.ud.username = NONE /\ chat_id # NONE
    THEN UNION {
             IF chat_id \in DOMAIN r.ret
             THEN {[r.w EXCEPT !.ud.username = r.ret[chat_id].username,
                               !.ud.password = r.ret[chat_id].password]}
             ELSE {r.w}
      : r \in load_saved_credentials(w)}
    ELSE {w}

\* requests.post(.../login, timeout=10) and what authenticate does with it
PostLogin(w, u, p) ==
    LET w1 == Emit(w, "POST /login")
    IN  {Ret([w1 EXCEPT !.ud.vikunja_token = TokenOf(u),
                        !.ud.username = u,
                        !.ud.password = p,
                        !.auth = "ok"], TRUE)}           \* status 200
        \cup {Ret([w1 EXCEPT !.auth = "failed"], FALSE)}
                                         \* other status, or RequestException

authenticate(w, username, password, save, chat_id) ==
    UNION {
        LET explicit == username # NONE /\ password # NONE
            s == [w1 EXCEPT !.ud.username = username,
                            !.ud.password = password]
            W2 == IF explicit
                  THEN (IF save /\ chat_id # NONE
                        THEN save_credentials(s, chat_id, username, password)
                        ELSE {s})
                  ELSE {w1}
            u == IF explicit THEN username ELSE w1.ud.username
            p == IF explicit THEN password ELSE w1.ud.password
        IN  UNION {
                IF u = NONE \/ p = NONE
                THEN {Ret([w2 EXCEPT !.auth = "failed"], FALSE)}
                ELSE PostLogin(w2, u, p)
      : w2 \in W2}
      : w1 \in get_user_session(w, chat_id)}

Logins(w) == Count(w.ev, "POST /login")

\* an is_authenticated that logs in again whenever it has credentials
is_authenticated_always_relogin(w, chat_id) ==
    UNION {
        LET W2 == IF w1.ud.username # NONE /\ w1.ud.password # NONE
                  THEN {r.w : r \in authenticate(w1, NONE, NONE, FALSE, chat_id)}
                  ELSE {w1}
        IN  {Ret([w2 EXCEPT !.isauth =
                      [called |-> TRUE,
                       ret |-> w2.ud.vikunja_token # NONE,
                       logins |-> Logins(w2) - Logins(w)]],
                 w2.ud.vikunja_token # NONE) : w2 \in W2}
      : w1 \in get_user_session(w, chat_id)}

is_authenticated(w, chat_id) ==
    UNION {
        LET W2 == IF w1.ud.vikunja_token = NONE /\ w1.ud.username # NONE
                     /\ w1.ud.password # NONE
                  THEN {r.w : r \in authenticate(w1, NONE, NONE, FALSE, chat_id)}
                  ELSE {w1}
        IN  {Ret([w2 EXCEPT !.isauth =
                      [called |-> TRUE,
                       ret |-> w2.ud.vikunja_token # NONE,
                       logins |-> Logins(w2) - Logins(w)]],
                 w2.ud.vikunja_token # NONE) : w2 \in W2}
      : w1 \in get_user_session(w, chat_id)}

get_headers(w) ==
    IF w.ud.vikunja_token = NONE THEN "no Authorization"
    ELSE w.ud.vikunja_token

\* requests.<method>(..., headers=get_headers(context)): the request x is
\* logged, after a note when it carries no Authorization header
Request(w, x) ==
    Emit(IF get_headers(w) = "no Authorization"
         THEN Emit(w, "no Authorization") ELSE w, x)

----------------------------------------------------------------------------
(* Project cache, lines 177-213 *)

CacheEntry(data, timestamp) == [data |-> data, timestamp |-> timestamp]

\* the first call of a handler run is the one the run's record keeps
NoteProjects(w, fetch, ret) ==
    IF w.projects.called THEN w
    ELSE [w EXCEPT !.projects = [called |-> TRUE, fetch |-> fetch, ret |-> ret]]

\* a cache that still serves an entry whose age is exactly the TTL
get_all_projects_cached_le(w) ==
    LET cache == w.ud.project_cache
    IN  IF cache # EmptyDict
           /\ w.now - cache.timestamp <= PROJECT_CACHE_SECONDS
        THEN {Ret(NoteProjects(w, "none", cache.data), cache.data)}
        ELSE LET w1 == Request(w, "GET /projects")
             IN  {Ret(NoteProjects(
                        [w1 EXCEPT !.ud.project_cache = CacheEntry(d, w.now)],
                        "200", d), d) : d \in ProjectLists}
                 \cup {Ret(NoteProjects(w1, "failed", << >>), << >>)}

get_all_projects_cached(w) ==
    LET cache == w.ud.project_cache
    IN  IF cache # EmptyDict
           /\ w.now - cache.timestamp < PROJECT_CACHE_SECONDS
        THEN {Ret(NoteProjects(w, "none", cache.data), cache.data)}
        ELSE LET w1 == Request(w, "GET /projects")
             IN  {Ret(NoteProjects(
                        [w1 EXCEPT !.ud.project_cache = CacheEntry(d, w.now)],
                        "200", d), d) : d \in ProjectLists}
                 \cup {Ret(NoteProjects(w1, "failed", << >>), << >>)}
                                 \* other status, or RequestException

----------------------------------------------------------------------------
(* Task aggregator, lines 225-255 *)

Task(id, done) == [id |-> id, done |-> done]

\* task lists GET /projects/{id}/tasks can answer with
TaskLists ==
    {<< >>,
     <<Task(20, FALSE), Task(21, FALSE), Task(22, TRUE), Task(23, FALSE),
       Task(24, FALSE), Task(25, FALSE), Task(26, FALSE)>>}

RECURSIVE FilterActive(_)
FilterActive(tasks) ==
    IF tasks = << >> THEN << >>
    ELSE IF ~Head(tasks).done
         THEN <<Head(tasks)>> \o FilterActive(Tail(tasks))
         ELSE FilterActive(Tail(tasks))

TagProject(tasks, project_id) ==
    [i \in 1..Len(tasks) |->
        [id |-> tasks[i].id, done |-> tasks[i].done, project_id |-> project_id]]

\* the answer to the request for the tasks of a project, noted in the world
Fetched(w, project_id, outcome, tasks) ==
    [w EXCEPT !.fetches = Append(@, [project_id |-> project_id,
                                     outcome |-> outcome, tasks |-> tasks])]

\* the loop over projects from index i; raised: requests.get raised
RECURSIVE FetchProjectTasks(_, _, _, _)
FetchProjectTasks(w, projects, i, all_tasks) ==
    IF i > Len(projects)
    THEN {[w |-> w, ret |-> FilterActive(all_tasks), raised |-> FALSE]}
    ELSE LET w1 == Request(w, "GET /projects/id/tasks")
         IN  UNION {FetchProjectTasks(
                        Fetched(w1, projects[i].id, "200", tasks),
                        projects, i + 1,
                        all_tasks \o TagProject(tasks, projects[i].id))
                    : tasks \in TaskLists}                     \* status 200
             \cup FetchProjectTasks(
                        Fetched(w1, projects[i].id, "other status", << >>),
                        projects, i + 1, all_tasks)
             \cup {[w |-> Fetched(w1, projects[i].id, "raised", << >>),
                    ret |-> << >>, raised |-> TRUE]}

get_active_tasks_from_projects(w) ==
    UNION {
        FetchProjectTasks(r.w, r.ret, 1, << >>)
      : r \in get_all_projects_cached(w)}

----------------------------------------------------------------------------
(* Quick-add parser, lines 257-315.  A text is a sequence of characters    *)
(* (one-character strings); the regular expressions are matched character  *)
(* by character, leftmost match first, as re.search / re.findall do.       *)

LowerSeq ==
    <<"a", "b", "c", "d", "e", "f", "g", "h", "i", "j", "k", "l", "m",
      "n", "o", "p", "q", "r", "s", "t", "u", "v", "w", "x", "y", "z">>

UpperSeq ==
    <<"A", "B", "C", "D", "E", "F", "G", "H", "I", "J", "K", "L", "M",
      "N", "O", "P", "Q", "R", "S", "T", "U", "V", "W", "X", "Y", "Z">>

DigitSeq == <<"0", "1", "2", "3", "4", "5", "6", "7", "8", "9">>

Range(q) == {q[i] : i \in DOMAIN q}

IndexOf(q, c) == CHOOSE i \in DOMAIN q : q[i] = c

\* str.lower() on one character, and on a text
LowerChar(c) == IF c \in Range(UpperSeq) THEN LowerSeq[IndexOf(UpperSeq, c)] ELSE c

lower(text) == [i \in DOMAIN text |-> LowerChar(text[i])]

IsDigit(c) == c \in Range(DigitSeq)

DigitVal(c) == IndexOf(DigitSeq, c) - 1

\* \s and \w of the re module
IsSpace(c) == c \in {" ", "\t", "\n"}

IsWordChar(c) == c \in Range(LowerSeq) \cup Range(UpperSeq) \cup Range(DigitSeq) \cup {"_"}

\* text without the characters a..b
Cut(text, a, b) == SubSeq(text, 1, a - 1) \o SubSeq(text, b + 1, Len(text))

\* int() of a run of digits
RECURSIVE IntOf(_)
IntOf(ds) ==
    IF ds = << >> THEN 0
    ELSE 10 * IntOf(SubSeq(ds, 1, Len(ds) - 1)) + DigitVal(ds[Len(ds)])

\* the last index of the run of characters from i on that are no whitespace /
\* that are digits (i - 1 when the run is empty)
RECURSIVE NonSpaceEnd(_, _)
NonSpaceEnd(text, i) ==
    IF i <= Len(text) /\ ~IsSpace(text[i]) THEN NonSpaceEnd(text, i + 1)
    ELSE i - 1

RECURSIVE DigitsEnd(_, _)
DigitsEnd(text, i) ==
    IF i <= Len(text) /\ IsDigit(text[i]) THEN DigitsEnd(text, i + 1)
    ELSE i - 1

\* the first index j >= i with text[j] = q, 0 when there is none
RECURSIVE NextChar(_, _, _)
NextChar(text, i, q) ==
    IF i > Len(text) THEN 0
    ELSE IF text[i] = q THEN i ELSE NextChar(text, i + 1, q)

NoMatch == [end |-> 0, val |-> << >>]

\* q([^q]+)q at i: the quote, one or more other characters, the quote
QuotedAt(text, i, q) ==
    IF i <= Len(text) /\ text[i] = q
    THEN LET j == NextChar(text, i + 1, q)
         IN  IF j > i + 1 THEN [end |-> j, val |-> SubSeq(text, i + 1, j - 1)]
             ELSE NoMatch
    ELSE NoMatch

\* m(?:"([^"]+)"|'([^']+)'|(\S+)) at i, for the marker m: where the match
\* ends (0: no match) and the group that matched
MarkerAt(text, i, m) ==
    IF i <= Len(text) /\ text[i] = m
    THEN LET dq == QuotedAt(text, i + 1, "\"")
             sq == QuotedAt(text, i + 1, "'")
             e  == NonSpaceEnd(text, i + 1)
         IN  IF dq.end > 0 THEN dq
             ELSE IF sq.end > 0 THEN sq
             ELSE IF e >= i + 1 THEN [end |-> e, val |-> SubSeq(text, i + 1, e)]
             ELSE NoMatch
    ELSE NoMatch

\* re.findall(labels) and re.sub(labels, '') from index i on: the labels in
\* order of appearance and the text that is left
RECURSIVE ExtractLabels(_, _)
ExtractLabels(text, i) ==
    IF i > Len(text) THEN [labels |-> << >>, rest |-> << >>]
    ELSE LET mt == MarkerAt(text, i, "*")
         IN  IF mt.end > 0
             THEN LET r == ExtractLabels(text, mt.end + 1)
                  IN  [labels |-> <<mt.val>> \o r.labels, rest |-> r.rest]
             ELSE LET r == ExtractLabels(text, i + 1)
                  IN  [labels |-> r.labels, rest |-> <<text[i]>> \o r.rest]

\* re.search(r'!([1-5])'): the index of the first match, 0 when there is none
RECURSIVE SearchPriority(_, _)
SearchPriority(text, i) ==
    IF i + 1 > Len(text) THEN 0
    ELSE IF text[i] = "!" /\ IsDigit(text[i + 1])
            /\ DigitVal(text[i + 1]) \in 1..5
         THEN i
         ELSE SearchPriority(text, i + 1)

\* re.search(project): the index of the first match, 0 when there is none
RECURSIVE SearchProject(_, _)
SearchProject(text, i) ==
    IF i > Len(text) THEN 0
    ELSE IF MarkerAt(text, i, "+").end > 0 THEN i
         ELSE SearchProject(text, i + 1)

\* the literal lit (lower case) at i, ignoring case: the index where it ends
LiteralAt(text, i, lit) ==
    IF i + Len(lit) - 1 <= Len(text)
       /\ \A k \in 1..Len(lit) : LowerChar(text[i + k - 1]) = lit[k]
    THEN i + Len(lit) - 1
    ELSE 0

\* \b before index i / after index e
BoundaryBefore(text, i) ==
    IsWordChar(text[i]) # (i > 1 /\ IsWordChar(text[i - 1]))

BoundaryAfter(text, e) ==
    IsWordChar(text[e]) # (e < Len(text) /\ IsWordChar(text[e + 1]))

\* \bword\b at i
WordAt(text, i, lit) ==
    LET e == LiteralAt(text, i, lit)
    IN  IF e > 0 /\ BoundaryBefore(text, i) /\ BoundaryAfter(text, e) THEN e
        ELSE 0

Weekdays ==
    << <<"m","o","n","d","a","y">>, <<"t","u","e","s","d","a","y">>,
       <<"w","e","d","n","e","s","d","a","y">>, <<"t","h","u","r","s","d","a","y">>,
       <<"f","r","i","d","a","y">>, <<"s","a","t","u","r","d","a","y">>,
       <<"s","u","n","d","a","y">> >>

\* in (\d+) <unit>s? at i: where it ends and the number
InUnitAt(text, i, unit) ==
    LET a == LiteralAt(text, i, <<"i", "n", " ">>)
        d == IF a > 0 THEN DigitsEnd(text, a + 1) ELSE 0
        u == IF a > 0 /\ d > a THEN LiteralAt(text, d + 1, <<" ">> \o unit) ELSE 0
    IN  IF u > 0
        THEN [end |-> IF u < Len(text) /\ LowerChar(text[u + 1]) = "s"
                      THEN u + 1 ELSE u,
              n |-> IntOf(SubSeq(text, a + 1, d))]
        ELSE [end |-> 0, n |-> 0]

\* (\d{1,2})/(\d{1,2})/(\d{4}) at i: two digits are tried before one
SlashDateFrom(text, i, n1, n2) ==
    LET s1 == i + n1
        s2 == s1 + 1 + n2
    IN  IF /\ s2 + 4 <= Len(text)
           /\ \A k \in i..(s1 - 1) : IsDigit(text[k])
           /\ text[s1] = "/"
           /\ \A k \in (s1 + 1)..(s2 - 1) : IsDigit(text[k])
           /\ text[s2] = "/"
           /\ \A k \in (s2 + 1)..(s2 + 4) : IsDigit(text[k])
        THEN [end |-> s2 + 4,
              d |-> IntOf(SubSeq(text, i, s1 - 1)),
              m |-> IntOf(SubSeq(text, s1 + 1, s2 - 1)),
              y |-> IntOf(SubSeq(text, s2 + 1, s2 + 4))]
        ELSE [end |-> 0, d |-> 0, m |-> 0, y |-> 0]

SlashDateAt(text, i) ==
    LET a == SlashDateFrom(text, i, 2, 2)
        b == SlashDateFrom(text, i, 2, 1)
        c == SlashDateFrom(text, i, 1, 2)
        d == SlashDateFrom(text, i, 1, 1)
    IN  IF a.end > 0 THEN a ELSE IF b.end > 0 THEN b
        ELSE IF c.end > 0 THEN c ELSE d

\* the twelve entries of date_patterns, in the order of the dict
NumDatePatterns == 12

\* where pattern k matches at index i (0: it does not)
DatePatternAt(k, text, i) ==
    CASE k = 1 -> WordAt(text, i, <<"t","o","d","a","y">>)
      [] k = 2 -> WordAt(text, i, <<"t","o","m","o","r","r","o","w">>)
      [] k \in 3..9 -> WordAt(text, i, <<"n","e","x","t"," ">> \o Weekdays[k - 2])
      [] k = 10 -> InUnitAt(text, i, <<"d","a","y">>).end
      [] k = 11 -> InUnitAt(text, i, <<"w","e","e","k">>).end
      [] OTHER -> SlashDateAt(text, i).end

\* re.search(pattern k): the index of the leftmost match, 0 when none
RECURSIVE SearchDate(_, _, _)
SearchDate(k, text, i) ==
    IF i > Len(text) THEN 0
    ELSE IF DatePatternAt(k, text, i) > 0 THEN i
         ELSE SearchDate(k, text, i + 1)

\* datetime.now().weekday(): Monday is 0
TodayWeekdays == 0..6

\* get_next_weekday(weekday): days ahead of today, whose weekday is today_wd
get_next_weekday(weekday, today_wd) ==
    LET days_ahead == weekday - today_wd
    IN  IF days_ahead <= 0 THEN days_ahead + 7 ELSE days_ahead

\* days of month m of year y, as datetime() checks them
IsLeap(y) == (y % 4 = 0 /\ y % 100 # 0) \/ y % 400 = 0

DaysInMonth(y, m) ==
    IF m = 2 THEN (IF IsLeap(y) THEN 29 ELSE 28)
    ELSE IF m \in {4, 6, 9, 11} THEN 30 ELSE 31

\* a due date: none, a number of days after today (strftime of now + days),
\* or the calendar date of a literal; "error" when the lambda raises
NoDate == [kind |-> "none"]

\* date.max.toordinal(): the day number of 31 December 9999; day 1 is
\* 1 January of year 1
MaxOrdinal == 3652059

\* datetime.now() + timedelta(days=n): whatever day today is, the sum is
\* past date.max when n is MaxOrdinal or more, and Python raises
\* OverflowError
InDays(n) ==
    IF n < MaxOrdinal THEN [kind |-> "today+", days |-> n]
    ELSE [kind |-> "error"]

OnDate(y, m, d) ==
    IF y >= 1 /\ m \in 1..12 /\ d >= 1 /\ d <= DaysInMonth(y, m)
    THEN [kind |-> "date", y |-> y, m |-> m, d |-> d]
    ELSE [kind |-> "error"]                        \* datetime(): ValueError

\* func(match) of pattern k matching at index i
DateValue(k, text, i, today_wd) ==
    CASE k = 1 -> InDays(0)
      [] k = 2 -> InDays(1)
      [] k \in 3..9 -> InDays(get_next_weekday(k - 3, today_wd))
      [] k = 10 -> InDays(InUnitAt(text, i, <<"d","a","y">>).n)
      [] k = 11 -> InDays(7 * InUnitAt(text, i, <<"w","e","e","k">>).n)
      [] OTHER -> LET sd == SlashDateAt(text, i) IN OnDate(sd.y, sd.m, sd.d)

\* a loop that would take the pattern whose match starts first in the text
ApplyLeftmostDate(k, text, today_wd) ==
    LET hits == {j \in k..NumDatePatterns : SearchDate(j, text, 1) > 0}
    IN  IF hits = {} THEN [due_date |-> NoDate, text |-> text]
        ELSE LET j == CHOOSE a \in hits : \A b \in hits :
                         \/ SearchDate(a, text, 1) < SearchDate(b, text, 1)
                         \/ SearchDate(a, text, 1) = SearchDate(b, text, 1) /\ a <= b
                 i == SearchDate(j, text, 1)
             IN  [due_date |-> DateValue(j, text, i, today_wd),
                  text |-> Cut(text, i, DatePatternAt(j, text, i))]

\* the loop over date_patterns from entry k on: the first pattern that
\* matches sets the date and its leftmost match is removed
RECURSIVE ApplyDatePatterns(_, _, _)
ApplyDatePatterns(k, text, today_wd) ==
    IF k > NumDatePatterns THEN [due_date |-> NoDate, text |-> text]
    ELSE LET i == SearchDate(k, text, 1)
         IN  IF i > 0
             THEN [due_date |-> DateValue(k, text, i, today_wd),
                   text |-> Cut(text, i, DatePatternAt(k, text, i))]
             ELSE ApplyDatePatterns(k + 1, text, today_wd)

\* text.split(): the words of a text
RECURSIVE split(_)
split(text) ==
    IF text = << >> THEN << >>
    ELSE IF IsSpace(text[1]) THEN split(Tail(text))
    ELSE LET e == NonSpaceEnd(text, 1)
         IN  <<SubSeq(text, 1, e)>> \o split(SubSeq(text, e + 1, Len(text)))

\* ' '.join(words)
RECURSIVE join(_)
join(words) ==
    IF words = << >> THEN << >>
    ELSE IF Len(words) = 1 THEN words[1]
    ELSE words[1] \o <<" ">> \o join(Tail(words))

\* a parser that would leave the labels in the text
parse_keeps_labels(task_text, today_wd) ==
    LET lab == ExtractLabels(task_text, 1)
        dt  == ApplyDatePatterns(1, task_text, today_wd)
    IN  [title |-> join(split(dt.text)), labels |-> lab.labels,
         priority |-> 0, project |-> << >>,
         due_date |-> dt.due_date, raised |-> dt.due_date.kind = "error"]

\* the parsed data; priority 0 and project << >> stand for None (no match
\* gives either value); raised: the date lambda raised, nothing is returned
parse_vikunja_task_format(task_text, today_wd) ==
    LET lab == ExtractLabels(task_text, 1)
        t1  == lab.rest
        pi  == SearchPriority(t1, 1)
        priority == IF pi > 0 THEN DigitVal(t1[pi + 1]) ELSE 0
        t2  == IF pi > 0 THEN Cut(t1, pi, pi + 1) ELSE t1
        pj  == SearchProject(t2, 1)
        pm  == IF pj > 0 THEN MarkerAt(t2, pj, "+") ELSE NoMatch
        t3  == IF pj > 0 THEN Cut(t2, pj, pm.end) ELSE t2
        dt  == ApplyDatePatterns(1, t3, today_wd)
    IN  [title |-> join(split(dt.text)), labels |-> lab.labels,
         priority |-> priority, project |-> pm.val,
         due_date |-> dt.due_date, raised |-> dt.due_date.kind = "error"]

----------------------------------------------------------------------------
(* Command handlers, lines 532-663 and 860-896: the results of a handler  *)
(* are the worlds it can end in; a conversation handler also returns the  *)
(* next conversation state.                                                *)

start(w, chat_id) ==
    UNION {
        LET W2 == IF w1.ud.username # NONE /\ w1.ud.password # NONE
                  THEN UNION {
                           IF ~r.ret
                           THEN {a.w : a \in authenticate(r.w, NONE, NONE,
                                                          FALSE, chat_id)}
                           ELSE {r.w}
      : r \in is_authenticated(w1, chat_id)}
                  ELSE {w1}
        IN  UNION {
                {IF r.ret THEN Emit(r.w, "reply: welcome, logged in")
                 ELSE Emit(r.w, "reply: welcome, need login")
                 : r \in is_authenticated(w2, chat_id)}
      : w2 \in W2}
      : w1 \in get_user_session(w, chat_id)}

login_start(w) ==
    {Ret(Emit(w, "reply: enter username"), LOGIN_USERNAME)}

login_username(w, text) ==
    LET username == strip(text)
        w1 == [w EXCEPT !.ud.temp_username = username]
    IN  {Ret(Emit(w1, "reply: enter password"), LOGIN_PASSWORD)}

\* update.message.delete(): done, or raising and caught
DeleteMessage(w) ==
    {Emit(w, "delete message"), Emit(w, "delete message failed")}

\* a login_password that gives up when the message cannot be deleted and
\* asks for the password again when the login fails
login_password_fragile(w, text, chat_id) ==
    LET password == strip(text)
        username == w.ud.temp_username
    IN  UNION {
            IF w1.ev = <<"delete message failed">>
            THEN {Ret(Emit(w1, "reply: authentication failed"), END)}
            ELSE UNION {
                IF r.ret
                THEN {Ret(Emit([r.w EXCEPT !.ud.temp_username = NONE],
                               "reply: logged in"), END)}
                ELSE {Ret(Emit(r.w, "reply: authentication failed"),
                          LOGIN_PASSWORD)}
      : r \in authenticate(Emit(w1, "reply: authenticating"),
                                   username, password, TRUE, chat_id)}
      : w1 \in DeleteMessage(w)}

login_password(w, text, chat_id) ==
    LET password == strip(text)
        username == w.ud.temp_username
    IN  UNION {
            UNION {
                LET w2 == [r.w EXCEPT !.ud.temp_username = NONE]
                IN  IF r.ret
                    THEN {Ret(Emit(w2, "reply: logged in"), END)}
                    ELSE {Ret(Emit(w2, "reply: authentication failed"), END)}
      : r \in authenticate(Emit(w1, "reply: authenticating"),
                              username, password, TRUE, chat_id)}
      : w1 \in DeleteMessage(w)}

\* a logout that only invalidates the token
logout_token_only(w, chat_id) ==
    UNION {
        UNION {
            {Emit([w2 EXCEPT !.ud.vikunja_token = NONE], "reply: logged out")}
      : w2 \in delete_saved_credentials(w1, chat_id)}
      : w1 \in get_user_session(w, NONE)}

logout(w, chat_id) ==
    UNION {
        UNION {
            {Emit([w2 EXCEPT !.ud = EmptyUserData], "reply: logged out")}
      : w2 \in delete_saved_credentials(w1, chat_id)}
      : w1 \in get_user_session(w, NONE)}

status(w, chat_id) ==
    UNION {
        IF ~r.ret THEN {Emit(r.w, "reply: not logged in")}
        ELSE {IF a.ret THEN Emit(a.w, "reply: connected")
              ELSE Emit(a.w, "reply: cannot connect")
              : a \in authenticate(r.w, NONE, NONE, FALSE, chat_id)}
      : r \in is_authenticated(w, chat_id)}

cancel(w) ==
    {Ret([Emit(w, "reply: canceled") EXCEPT !.ud = EmptyUserData], END)}

today_tasks(w, chat_id) ==
    UNION {
        IF ~r.ret THEN {Emit(r.w, "reply: need login")}
        ELSE UNION {
            IF ~a.ret THEN {Emit(a.w, "reply: cannot connect")}
            ELSE UNION {
                IF p.ret = << >> THEN {Emit(p.w, "reply: no projects")}
                ELSE {IF t.raised THEN Emit(t.w, "reply: error")
                      ELSE IF t.ret = << >> THEN Emit(t.w, "reply: no tasks today")
                      ELSE Emit(t.w, "reply: tasks due today")
                      : t \in get_active_tasks_from_projects(p.w)}
      : p \in get_all_projects_cached(a.w)}
      : a \in authenticate(r.w, NONE, NONE, FALSE, chat_id)}
      : r \in is_authenticated(w, chat_id)}

----------------------------------------------------------------------------
(* Task conversation, lines 667-857.  The data of a button is written as   *)
(* its parts, data.split('_'): "task_next_0" is <<"task", "next", "0">>.   *)
(* A handler returns the next state, NONE, or RAISED when an exception     *)
(* leaves it; is_callback: the update is a button press, update.message   *)
(* is None.                                                                *)

RAISED == "raised"

\* str() of a number, and int() of such a string
RECURSIVE str(_)
str(n) ==
    IF n < 10 THEN DigitSeq[n + 1]
    ELSE str(n \div 10) \o DigitSeq[(n % 10) + 1]

MaxInt == 99

int(s) == CHOOSE n \in 0..MaxInt : str(n) = s

Min(a, b) == IF a < b THEN a ELSE b

Max(a, b) == IF a > b THEN a ELSE b

\* q[a:b]
Slice(q, a, b) ==
    LET from == IF a < 0 THEN Max(Len(q) + a, 0) ELSE a
        to   == IF b < 0 THEN Max(Len(q) + b, 0) ELSE Min(b, Len(q))
    IN  SubSeq(q, from + 1, to)

\* the buttons of the edit menu, lines 780-787
EditButtons ==
    {<<"task", "edit", a>> :
        a \in {"done", "project", "priority", "due", "delete", "back"}}

\* the buttons the user goes on to press: those of the edit menu, those
\* that turn pages, and the first task of a task list
SelectIds == {"20"}

Pressed ==
    EditButtons
    \cup {<<"task", "select", id>> : id \in SelectIds}
    \cup {<<"task", a, str(n)>> : a \in {"prev", "next"}, n \in 0..MaxInt}
    \cup {<<"quick", "done", id>> : id \in SelectIds}
    \cup {<<"view", "all", "tasks">>}

AddButtons(w, bs) == [w EXCEPT !.buttons = @ \cup (bs \cap Pressed)]

\* the page that show_task_page renders
Page(active_tasks, page) ==
    LET total_pages == ((Len(active_tasks) - 1) \div TASKS_PER_PAGE) + 1
        offset == page * TASKS_PER_PAGE
        page_tasks == Slice(active_tasks, offset, offset + TASKS_PER_PAGE)
    IN  [rendered |-> TRUE, count |-> Len(active_tasks), page |-> page,
         active |-> [i \in DOMAIN active_tasks |-> str(active_tasks[i].id)],
         total_pages |-> total_pages,
         tasks |-> [i \in DOMAIN page_tasks |-> str(page_tasks[i].id)],
         prev |-> page > 0, next |-> page < total_pages - 1]

PageButtons(shown) ==
    {<<"task", "select", shown.tasks[i]>> : i \in DOMAIN shown.tasks}
    \cup (IF shown.prev THEN {<<"task", "prev", str(shown.page)>>} ELSE {})
    \cup (IF shown.next THEN {<<"task", "next", str(shown.page)>>} ELSE {})

show_task_page(w, is_callback) ==
    LET page == IF w.ud.task_page = << >> THEN 0 ELSE w.ud.task_page[1]
    IN  UNION {
            IF t.raised
            THEN \* the except branch replies through update.message
                 IF is_callback THEN {Ret(Emit(t.w, "exception"), RAISED)}
                 ELSE {Ret(Emit(t.w, "reply: error fetching tasks"), NONE)}
            ELSE IF t.ret = << >>
            THEN \* so does the branch of the empty list, inside the try
                 IF is_callback
                 THEN {Ret(Emit([t.w EXCEPT !.shown = EmptyPage], "exception"),
                           RAISED)}
                 ELSE {Ret(Emit([t.w EXCEPT !.shown = EmptyPage],
                                "reply: no active tasks"), NONE)}
            ELSE LET shown == Page(t.ret, page)
                     w1 == Emit(t.w, IF is_callback THEN "edit: task page"
                                     ELSE "reply: task page")
                 IN  {Ret(AddButtons([w1 EXCEPT !.shown = shown],
                                     PageButtons(shown)), NONE)}
          : t \in get_active_tasks_from_projects(w)}

\* a handler that ends when the page is shown: it goes to state, unless
\* show_task_page raised
Shown(r, state) == Ret(r.w, IF r.ret = RAISED THEN RAISED ELSE state)

list_tasks(w, chat_id) ==
    UNION {
        IF ~r.ret THEN {Ret(Emit(r.w, "reply: need login"), END)}
        ELSE UNION {
            IF ~a.ret THEN {Ret(Emit(a.w, "reply: cannot connect"), END)}
            ELSE {Shown(p, TASK_LIST_VIEW)
                  : p \in show_task_page([a.w EXCEPT !.ud.task_page = <<0>>],
                                         FALSE)}
      : a \in authenticate(r.w, NONE, NONE, FALSE, chat_id)}
      : r \in is_authenticated(w, chat_id)}

show_task_edit_menu(w) ==
    LET task_id == w.ud.selected_task_id
        w1 == Request(w, "GET /tasks/" \o task_id)
    IN  {Ret(Emit(w1, "edit: failed to fetch task"), NONE)}    \* other status
        \cup {Ret(Emit(w1, "edit: error"), NONE)}         \* requests.get raised
        \cup {Ret(AddButtons(Emit(p.w, "edit: task menu"), EditButtons), NONE)
              : p \in get_all_projects_cached(w1)}              \* status 200

task_list_callback(w, data) ==
    LET action == data[2]
    IN  IF action \in {"prev", "next"}
        THEN LET page == int(data[3])
                 w1 == [w EXCEPT !.ud.task_page =
                           <<IF action = "prev" THEN page - 1 ELSE page + 1>>]
             IN  {Shown(p, TASK_LIST_VIEW) : p \in show_task_page(w1, TRUE)}
        ELSE IF action = "select"
        THEN {Ret(r.w, TASK_EDIT_VIEW)
              : r \in show_task_edit_menu(
                          [w EXCEPT !.ud.selected_task_id = data[3]])}
        ELSE {Ret(w, NONE)}

task_edit_callback(w, data) ==
    LET action == data[Len(data)]
        task_id == w.ud.selected_task_id
    IN  IF task_id = NONE
        THEN {Ret(Emit(w, "exception"), RAISED)}                  \* KeyError
        ELSE IF action = "back"
        THEN {Shown(p, TASK_LIST_VIEW) : p \in show_task_page(w, TRUE)}
        ELSE IF action \in {"done", "delete"}
        THEN LET w1 == Request(w, IF action = "done"
                                  THEN "POST /tasks/" \o task_id \o " done"
                                  ELSE "DELETE /tasks/" \o task_id)
             IN  {Ret(Emit(w1, IF action = "done" THEN "edit: task marked as done"
                                ELSE "edit: task deleted"), END),
                  Ret(Emit(w1, "edit: operation failed"), END),
                  Ret(Emit(w1, "edit: error"), END)}
        ELSE IF action = "due"
        THEN {Ret(Emit(w, "edit: enter due date"), TASK_EDIT_DUE)}
        ELSE {Ret(w, TASK_EDIT_VIEW)}

\* strftime('%Y-%m-%d') of a due date
Pad2(n) == IF n < 10 THEN "0" \o str(n) ELSE str(n)

DateStr(d) ==
    IF d.kind = "today+" THEN "today+" \o str(d.days)
    ELSE str(d.y) \o "-" \o Pad2(d.m) \o "-" \o Pad2(d.d)

\* lines 845-857: the update is sent, then the list is shown again
SendDueDate(w, task_id, due) ==
    LET w1 == Request(w, "POST /tasks/" \o task_id \o " due_date=" \o due)
    IN  UNION {
            {Shown(p, TASK_LIST_VIEW) : p \in show_task_page(w2, FALSE)}
          : w2 \in {Emit(w1, "reply: due date updated"),
                    Emit(w1, "reply: failed to update due date"),
                    Emit(w1, "reply: error")}}

handle_task_due_date_update(w, text, today_wd) ==
    LET due_text == lower(text)
        task_id == w.ud.selected_task_id
    IN  IF task_id = NONE
        THEN {Ret(Emit(w, "exception"), RAISED)}                  \* KeyError
        ELSE IF due_text = <<"n","o","n","e">>
        THEN SendDueDate(w, task_id, "None")
        ELSE UNION {
                 IF parsed.raised
                 THEN {Ret(Emit(w, "exception"), RAISED)}       \* ValueError
                 ELSE IF parsed.due_date # NoDate
                 THEN SendDueDate(w, task_id,
                                  DateStr(parsed.due_date) \o "T23:59:59Z")
                 ELSE {Ret(Emit(w, "reply: invalid date"), TASK_EDIT_DUE)}
               : parsed \in {parse_vikunja_task_format(due_text, today_wd)}}

----------------------------------------------------------------------------
(* Quick add and quick done, lines 199-213 and 317-530 *)

NoProject == << >>

\* get_project_by_name, lines 199-205: the first project whose title is the
\* name, ignoring case
get_project_by_name(w, project_name) ==
    {LET hits == SelectSeq(r.ret,
                     LAMBDA proj : lower(proj.title) = lower(project_name))
     IN  Ret(r.w, IF hits = << >> THEN NoProject ELSE hits[1])
     : r \in get_all_projects_cached(w)}

\* lines 372-380 of handle_plain_message: the project id of the new task
resolve_project_id(w, parsed) ==
    IF parsed.project # << >>
    THEN {Ret(r.w, IF r.ret # NoProject THEN r.ret.id ELSE 1)
          : r \in get_project_by_name(w, parsed.project)}
    ELSE {Ret(r.w, IF r.ret # << >> THEN r.ret[1].id ELSE 1)
          : r \in get_all_projects_cached(w)}

\* create_task, lines 317-355: whether the task was created
create_task(w, project_id) ==
    LET w1 == Request(w, "PUT /projects/" \o str(project_id) \o "/tasks")
    IN  {Ret(w1, TRUE),                                       \* 200 or 201
         Ret(w1, FALSE),                                    \* other status
         Ret(w1, FALSE)}                                  \* requests.put raised

\* the buttons under a quick list of the active tasks
QuickButtons(active_tasks) ==
    LET display_tasks == Slice(active_tasks, 0, 5)
    IN  {<<"quick", "done", str(display_tasks[i].id)>> : i \in DOMAIN display_tasks}
        \cup (IF Len(active_tasks) > 5 THEN {<<"view", "all", "tasks">>} ELSE {})

\* show_quick_task_list, lines 399-444; the project of a listed task is
\* looked up in the cache that the listing has just filled
show_quick_task_list(w) ==
    {IF t.raised THEN Emit(t.w, "reply: error fetching tasks")
     ELSE IF t.ret = << >> THEN Emit(t.w, "reply: no active tasks")
     ELSE AddButtons(Emit(t.w, "reply: quick list"), QuickButtons(t.ret))
     : t \in get_active_tasks_from_projects(w)}

\* show_quick_task_list_new_message, lines 485-530
show_quick_task_list_new_message(w) ==
    {IF t.raised THEN t.w
     ELSE IF t.ret = << >> THEN Emit(t.w, "reply: all tasks completed")
     ELSE AddButtons(Emit(t.w, "reply: quick list"), QuickButtons(t.ret))
     : t \in get_active_tasks_from_projects(w)}

handle_plain_message(w, chat_id, text, today_wd) ==
    UNION {
        IF ~r.ret THEN {Ret(Emit(r.w, "reply: need login"), NONE)}
        ELSE UNION {
            IF parsed.raised
            THEN {Ret(Emit(r.w, "exception"), RAISED)}
            ELSE UNION {
                UNION {
                    IF c.ret
                    THEN {Ret(q, NONE) : q \in show_quick_task_list(
                                 Emit(c.w, "reply: task created"))}
                    ELSE {Ret(Emit(c.w, "reply: failed to create task"), NONE)}
              : c \in create_task(pr.w, pr.ret)}
              : pr \in resolve_project_id(r.w, parsed)}
          : parsed \in {parse_vikunja_task_format(text, today_wd)}}
      : r \in is_authenticated(w, chat_id)}

handle_quick_done_callback(w, chat_id, data) ==
    UNION {
        IF ~r.ret THEN {Ret(Emit(r.w, "edit: need login"), NONE)}
        ELSE IF data = <<"view", "all", "tasks">>
        THEN show_task_page([r.w EXCEPT !.ud.task_page = <<0>>], TRUE)
        ELSE LET task_id == data[Len(data)]
                 w1 == Request(r.w, "POST /tasks/" \o task_id \o " done")
             IN  {Ret(q, NONE) : q \in show_quick_task_list_new_message(
                                          Emit(w1, "edit: marked as done"))}
                 \cup {Ret(Emit(w1, "edit: failed to mark as done"), NONE),
                       Ret(Emit(w1, "edit: error"), NONE)}
      : r \in is_authenticated(w, chat_id)}

----------------------------------------------------------------------------
(* The state machine *)

\* the world a handler for chat c starts in
Begin(c) ==
    [ud |-> user_data[c], file |-> credentials_file, now |-> clock,
     buttons |-> buttons[c], input |-> NoInput, shown |-> NoPage,
     fetches |-> << >>, ev |-> << >>, readok |-> TRUE, store |-> NoStore, isauth |-> NoIsAuth,
     auth |-> "none", projects |-> NoProjects]

\* the same for an update that carries a text or the data of a button
BeginWith(c, input) == [Begin(c) EXCEPT !.input = input]

\* what last holds before the first update
NoRun ==
    [chat |-> "none", op |-> "none", input |-> NoInput, shown |-> NoPage,
     ev |-> << >>, store |-> NoStore, isauth |-> NoIsAuth, auth |-> "none",
     projects |-> NoProjects]

\* what the model keeps of the last handler run
Run(c, op, w) ==
    [chat |-> c, op |-> op, input |-> w.input, shown |-> w.shown,
     ev |-> w.ev, store |-> w.store, isauth |-> w.isauth, auth |-> w.auth,
     projects |-> w.projects]

\* a handler outside the conversations ended in world w
Commit(c, op, w) ==
    /\ user_data' = [user_data EXCEPT ![c] = w.ud]
    /\ credentials_file' = w.file
    /\ buttons' = [buttons EXCEPT ![c] = w.buttons]
    /\ last' = Run(c, op, w)
    /\ UNCHANGED <<login_conv, task_conv, clock>>

\* a handler of the login conversation ended in r.w, returning state r.ret
CommitLogin(c, op, r) ==
    /\ user_data' = [user_data EXCEPT ![c] = r.w.ud]
    /\ credentials_file' = r.w.file
    /\ last' = Run(c, op, r.w)
    /\ login_conv' = [login_conv EXCEPT ![c] = r.ret]
    /\ buttons' = [buttons EXCEPT ![c] = r.w.buttons]
    /\ UNCHANGED <<task_conv, clock>>

\* the files an earlier run of the bot can have left behind
StoredFiles ==
    {NoFile} \cup
    {[exists |-> TRUE, creds |-> m] :
        m \in UNION {[S -> {Record(u, p) : u \in Usernames, p \in Passwords}]
                     : S \in (SUBSET Chats) \ {{}}}}

Init ==
    /\ user_data = [c \in Chats |-> EmptyUserData]
    /\ credentials_file \in StoredFiles
    /\ login_conv = [c \in Chats |-> END]
    /\ task_conv = [c \in Chats |-> END]
    /\ buttons = [c \in Chats |-> {}]
    /\ clock = 0
    /\ last = NoRun

\* main(), lines 910-946: which handler takes which update
Start(c) == \E w \in start(Begin(c), c) : Commit(c, "start", w)

LoginStart(c) ==
    /\ login_conv[c] = END
    /\ \E r \in login_start(Begin(c)) : CommitLogin(c, "login_start", r)

LoginUsername(c) ==
    /\ login_conv[c] = LOGIN_USERNAME
    /\ \E text \in UsernameTexts :
         \E r \in login_username(Begin(c), text) :
            CommitLogin(c, "login_username", r)

LoginPassword(c) ==
    /\ login_conv[c] = LOGIN_PASSWORD
    /\ \E text \in PasswordTexts :
         \E r \in login_password(Begin(c), text, c) :
            CommitLogin(c, "login_password", r)

Logout(c) == \E w \in logout(Begin(c), c) : Commit(c, "logout", w)

Status(c) == \E w \in status(Begin(c), c) : Commit(c, "status", w)

Cancel(c) ==
    /\ login_conv[c] # END
    /\ \E r \in cancel(Begin(c)) : CommitLogin(c, "cancel", r)

Today(c) == \E w \in today_tasks(Begin(c), c) : Commit(c, "today", w)

\* time passes between two updates
Tick(d) ==
    /\ clock + d <= MaxClock
    /\ clock' = clock + d
    /\ UNCHANGED <<user_data, credentials_file, login_conv, task_conv, buttons,
                   last>>

Next ==
    \/ \E c \in Actors : Start(c)
    \/ \E c \in Actors : LoginStart(c)
    \/ \E c \in Actors : LoginUsername(c)
    \/ \E c \in Actors : LoginPassword(c)
    \/ \E c \in Actors : Logout(c)
    \/ \E c \in Actors : Status(c)
    \/ \E c \in Actors : Cancel(c)
    \/ \E c \in Actors : Today(c)
    \/ Tick(PROJECT_CACHE_SECONDS)

Spec == Init /\ [][Next]_vars

----------------------------------------------------------------------------
(* The project cache under a clock that advances second by second: one    *)
(* chat, logged in, sends the today command again and again.               *)

LoggedIn(u, p) ==
    [EmptyUserData EXCEPT !.vikunja_token = TokenOf(u), !.username = u,
                          !.password = p]

InitCache ==
    /\ user_data = [c \in Chats |-> IF c \in Actors THEN LoggedIn("alice", "pw")
                                    ELSE EmptyUserData]
    /\ credentials_file = [exists |-> TRUE,
                           creds |-> [c \in Actors |-> Record("alice", "pw")]]
    /\ login_conv = [c \in Chats |-> END]
    /\ task_conv = [c \in Chats |-> END]
    /\ buttons = [c \in Chats |-> {}]
    /\ clock = 0
    /\ last = NoRun

\* the steps of the clock: one second, and one short of the TTL
ClockSteps == {1, PROJECT_CACHE_SECONDS - 1}

NextCache ==
    \/ \E c \in Actors : Today(c)
    \/ \E d \in ClockSteps : Tick(d)

SpecCache == InitCache /\ [][NextCache]_vars


----------------------------------------------------------------------------
(* The task conversation of a chat that has logged in, with the handlers   *)
(* that can run in the middle of it: /login and the username step (the     *)
(* password step is followed in Spec), /logout and /cancel.  The guards    *)
(* follow the order in which main(), lines 910-946, offers an update to    *)
(* the handlers.                                                           *)

\* a handler of the task conversation ended in r.w, returning r.ret
CommitTask(c, op, r) ==
    /\ user_data' = [user_data EXCEPT ![c] = r.w.ud]
    /\ credentials_file' = r.w.file
    /\ last' = Run(c, op, r.w)
    /\ task_conv' = [task_conv EXCEPT ![c] =
                        IF r.ret \in {NONE, RAISED} THEN @ ELSE r.ret]
    /\ buttons' = [buttons EXCEPT ![c] = r.w.buttons]
    /\ UNCHANGED <<login_conv, clock>>

\* the weekday of the day on which the chat is followed: a Wednesday
FlowWeekdays == {2}

\* the texts a chat sends as a due date / as a new task
DueTexts ==
    {<<"N","o","n","e">>, <<"t","o","m","o","r","r","o","w">>,
     <<"s","o","o","n">>, <<"3","1","/","0","2","/","2","0","2","5">>}

PlainTexts ==
    {<<"B","u","y">>, <<"B","u","y"," ","+","i","n","b","o","x">>,
     <<"B","u","y"," ","+","W","o","r","k">>}

ListTasks(c) ==
    /\ task_conv[c] = END
    /\ \E r \in list_tasks(Begin(c), c) : CommitTask(c, "list_tasks", r)

TaskListCallback(c) ==
    /\ task_conv[c] = TASK_LIST_VIEW
    /\ \E data \in buttons[c] :
         /\ data[1] = "task"
         /\ \E r \in task_list_callback(BeginWith(c, data), data) :
               CommitTask(c, "task_list_callback", r)

TaskEditCallback(c) ==
    /\ task_conv[c] = TASK_EDIT_VIEW
    /\ \E data \in buttons[c] :
         /\ data[1] = "task" /\ data[2] = "edit"
         /\ \E r \in task_edit_callback(BeginWith(c, data), data) :
               CommitTask(c, "task_edit_callback", r)

TaskDueDate(c) ==
    /\ login_conv[c] = END
    /\ task_conv[c] = TASK_EDIT_DUE
    /\ \E text \in DueTexts, wd \in FlowWeekdays :
         \E r \in handle_task_due_date_update(BeginWith(c, text), text, wd) :
            CommitTask(c, "handle_task_due_date_update", r)

CancelTask(c) ==
    /\ login_conv[c] = END
    /\ task_conv[c] # END
    /\ \E r \in cancel(Begin(c)) : CommitTask(c, "cancel", r)

QuickDone(c) ==
    \E data \in buttons[c] :
       /\ data[1] = "quick" \/ data = <<"view", "all", "tasks">>
       /\ \E r \in handle_quick_done_callback(BeginWith(c, data), c, data) :
             Commit(c, "handle_quick_done_callback", r.w)

PlainMessage(c) ==
    /\ login_conv[c] = END
    /\ task_conv[c] # TASK_EDIT_DUE
    /\ \E text \in PlainTexts, wd \in FlowWeekdays :
         \E r \in handle_plain_message(BeginWith(c, text), c, text, wd) :
            Commit(c, "handle_plain_message", r.w)

InitTasks ==
    /\ user_data = [c \in Chats |-> IF c \in Actors THEN LoggedIn("alice", "pw")
                                    ELSE EmptyUserData]
    /\ credentials_file = [exists |-> TRUE,
                           creds |-> [c \in Actors |-> Record("alice", "pw")]]
    /\ login_conv = [c \in Chats |-> END]
    /\ task_conv = [c \in Chats |-> END]
    /\ buttons = [c \in Chats |-> {}]
    /\ clock = 0
    /\ last = NoRun

NextTasks ==
    \/ \E c \in Actors : LoginStart(c)
    \/ \E c \in Actors : LoginUsername(c)
    \/ \E c \in Actors : Logout(c)
    \/ \E c \in Actors : Cancel(c)
    \/ \E c \in Actors : ListTasks(c)
    \/ \E c \in Actors : TaskListCallback(c)
    \/ \E c \in Actors : TaskEditCallback(c)
    \/ \E c \in Actors : TaskDueDate(c)
    \/ \E c \in Actors : CancelTask(c)

SpecTasks == InitTasks /\ [][NextTasks]_vars

\* quick add and quick done, for a chat that has logged in
NextQuick ==
    \/ \E c \in Actors : PlainMessage(c)
    \/ \E c \in Actors : QuickDone(c)
    \/ \E c \in Actors : Logout(c)

SpecQuick == InitTasks /\ [][NextQuick]_vars

----------------------------------------------------------------------------
(* The aggregator on its own: a logged-in chat whose project cache is      *)
(* fresh or empty lists its active tasks.                                  *)

P3 == [id |-> 3, title |-> <<"W","o","r","k">>]

CachedLists == ProjectLists \cup {<<P3, P1, P2>>}

InitList ==
    /\ \E u \in Usernames, cache \in {EmptyDict} \cup
                                     {CacheEntry(d, 0) : d \in CachedLists} :
          user_data = [c \in Chats |->
                          IF c \in Actors
                          THEN [LoggedIn(u, "pw") EXCEPT !.project_cache = cache]
                          ELSE EmptyUserData]
    /\ credentials_file = NoFile
    /\ login_conv = [c \in Chats |-> END]
    /\ task_conv = [c \in Chats |-> END]
    /\ buttons = [c \in Chats |-> {}]
    /\ clock = 0
    /\ last = NoRun

ListActiveTasks(c) ==
    /\ last = NoRun
    /\ \E r \in get_active_tasks_from_projects(Begin(c)) :
          /\ last' = [chat |-> c, op |-> "get_active_tasks_from_projects",
                      ev |-> r.w.ev, fetches |-> r.w.fetches,
                      ret |-> r.ret, raised |-> r.raised]
          /\ user_data' = [user_data EXCEPT ![c] = r.w.ud]
    /\ UNCHANGED <<credentials_file, login_conv, task_conv, buttons, clock>>

NextList == \E c \in Actors : ListActiveTasks(c)

SpecList == InitList /\ [][NextList]_vars

----------------------------------------------------------------------------
(* The parser on its own: a text is received and parsed.  A text is given  *)
(* as its pieces (title words, markers, date phrases) joined by spaces.    *)

Word(chars) == [kind |-> "word", chars |-> chars]

Marker(kind, m, val) == [kind |-> kind, chars |-> <<m>> \o val, val |-> val]

\* a date phrase: its characters and its entry in date_patterns
Phrase(chars, k) == [kind |-> "date", chars |-> chars, k |-> k]

W_Buy == Word(<<"B","u","y">>)

W_milk == Word(<<"m","i","l","k">>)

W_meeting == Word(<<"m","e","e","t","i","n","g">>)

M_prio == [kind |-> "priority", chars |-> <<"!","2">>, digit |-> 2]

M_errands == Marker("label", "*", <<"e","r","r","a","n","d","s">>)

M_shop == Marker("label", "*", <<"s","h","o","p">>)

M_Home == Marker("project", "+", <<"H","o","m","e">>)

D_today == Phrase(<<"t","o","d","a","y">>, 1)

D_tomorrow == Phrase(<<"t","o","m","o","r","r","o","w">>, 2)

D_next_monday == Phrase(<<"n","e","x","t"," ","M","o","n","d","a","y">>, 3)

D_in_3_days == Phrase(<<"i","n"," ","3"," ","d","a","y","s">>, 10)

D_in_2_weeks == Phrase(<<"i","n"," ","2"," ","w","e","e","k","s">>, 11)

D_christmas == Phrase(<<"2","5","/","1","2","/","2","0","2","5">>, 12)

\* date phrases that the patterns match and no date can stand for
D_feb_31 == Phrase(<<"3","1","/","0","2","/","2","0","2","5">>, 12)

D_99_99 == Phrase(<<"9","9","/","9","9","/","2","0","2","5">>, 12)

D_in_4000000_days ==
    Phrase(<<"i","n"," ","4","0","0","0","0","0","0"," ","d","a","y","s">>, 10)

M_prio3 == [kind |-> "priority", chars |-> <<"!","3">>, digit |-> 3]

M_Work == Marker("project", "+", <<"W","o","r","k">>)

DatePhrases ==
    {D_today, D_tomorrow, D_next_monday, D_in_3_days, D_in_2_weeks, D_christmas}

\* the orders in which the pieces of a sequence can be written
Orders(pieces) ==
    {[i \in DOMAIN pieces |-> pieces[f[i]]] :
        f \in {g \in [DOMAIN pieces -> DOMAIN pieces] :
                  \A a, b \in DOMAIN pieces : a # b => g[a] # g[b]}}

\* the pieces written one after the other with one space in between
TextOf(pieces) == join([i \in DOMAIN pieces |-> pieces[i].chars])

\* title words with one marker of each kind and one date phrase; the same
\* with two labels; a title word with two date phrases
MarkedTexts ==
    UNION {Orders(<<W_Buy, W_milk, M_prio, M_errands, M_Home, d>>)
           : d \in {D_tomorrow, D_in_3_days}}
    \cup UNION {Orders(<<W_Buy, M_prio, M_errands, M_shop, M_Home, d>>)
                : d \in {D_next_monday, D_christmas}}

TwoDateTexts ==
    UNION {Orders(<<W_meeting, d, e>>)
           : <<d, e>> \in {q \in DatePhrases \X DatePhrases : q[1].k < q[2].k}}

\* a title word with a date phrase that stands for no date
BadDateTexts ==
    UNION {Orders(<<W_Buy, d>>) : d \in {D_feb_31, D_99_99, D_in_4000000_days}}

\* a title word with two priority markers / with two project markers
TwoMarkerTexts ==
    Orders(<<W_Buy, M_prio, M_prio3>>) \cup Orders(<<W_Buy, M_Home, M_Work>>)

ParseInputs ==
    MarkedTexts \cup TwoDateTexts \cup BadDateTexts \cup TwoMarkerTexts

InitParse ==
    /\ user_data = [c \in Chats |-> EmptyUserData]
    /\ credentials_file = NoFile
    /\ login_conv = [c \in Chats |-> END]
    /\ task_conv = [c \in Chats |-> END]
    /\ buttons = [c \in Chats |-> {}]
    /\ clock = 0
    /\ \E pieces \in ParseInputs, wd \in TodayWeekdays :
          last = [chat |-> "c1", op |-> "text", pieces |-> pieces,
                  text |-> TextOf(pieces), today_wd |-> wd]

ParseText ==
    /\ last.op = "text"
    /\ last' = [chat |-> last.chat, op |-> "parse", pieces |-> last.pieces,
                text |-> last.text, today_wd |-> last.today_wd,
                parsed |-> parse_vikunja_task_format(last.text, last.today_wd)]
    /\ UNCHANGED <<user_data, credentials_file, login_conv, task_conv, buttons,
                   clock>>

NextParse == ParseText

SpecParse == InitParse /\ [][NextParse]_vars

----------------------------------------------------------------------------
(* The credential store used by two chats at once: each chat has one save  *)
(* or delete to do, and the reading and the writing of the document are    *)
(* steps of their own.  save_credentials and delete_saved_credentials are  *)
(* plain functions (def, not async def) without any await between the read *)
(* and the write, called from handlers that run on the one event loop of   *)
(* app.run_polling(): while one of them is between its read and its write *)
(* no other handler runs.                                                  *)

\* what a chat has to do: save the credentials of a user, or delete
StoreOps ==
    {[kind |-> "save", username |-> u, password |-> p]
        : u \in Usernames, p \in Passwords}
    \cup {[kind |-> "delete", username |-> NONE, password |-> NONE]}

\* a call that has not started: nothing read, nothing written
Called(o) ==
    [pc |-> "start", kind |-> o.kind, username |-> o.username,
     password |-> o.password, credentials |-> EmptyDict, readok |-> TRUE,
     write |-> "none"]

\* lines 66-71 of save_credentials: the record is put into the mapping that
\* was read and the mapping is written
save_credentials_write(w, credentials, chat_id, username, password) ==
    WriteFile(w, Put(credentials, chat_id, Record(username, password)))

\* lines 85-96 of delete_saved_credentials, after the mapping was read
delete_saved_credentials_write(w, credentials, chat_id) ==
    IF chat_id \in DOMAIN credentials
    THEN LET rest == Del(credentials, chat_id)
         IN  IF rest = EmptyDict
             THEN (IF w.file.exists THEN RemoveFile(w) ELSE {w})
             ELSE WriteFile(w, rest)
    ELSE {w}

InitStore ==
    /\ user_data = [c \in Chats |-> EmptyUserData]
    /\ credentials_file \in StoredFiles
    /\ login_conv = [c \in Chats |-> END]
    /\ task_conv = [c \in Chats |-> END]
    /\ buttons = [c \in Chats |-> {}]
    /\ clock = 0
    /\ \E ops \in [Chats -> StoreOps] :
          /\ \E c \in Chats : ops[c].kind = "save"
          /\ last = [chat |-> "none", op |-> "store",
                      calls |-> [c \in Chats |-> Called(ops[c])]]

\* a store function is between its read and its write
StoreBusy == \E c \in Chats : last.calls[c].pc = "read"

\* credentials = load_saved_credentials(), lines 65 and 84
StoreRead(c) ==
    /\ last.op = "store"
    /\ last.calls[c].pc = "start"
    /\ ~StoreBusy
    /\ \E r \in load_saved_credentials(Begin(c)) :
          last' = [last EXCEPT !.calls[c].pc = "read",
                               !.calls[c].credentials = r.ret,
                               !.calls[c].readok = r.w.readok]
    /\ UNCHANGED <<user_data, credentials_file, login_conv, task_conv,
                   buttons, clock>>

\* the rest of the function: the document is written, or the write raises
\* and the exception is logged
StoreWrite(c) ==
    /\ last.op = "store"
    /\ last.calls[c].pc = "read"
    /\ LET call == last.calls[c]
       IN  \E w \in (IF call.kind = "save"
                      THEN save_credentials_write(Begin(c), call.credentials,
                                                  c, call.username,
                                                  call.password)
                      ELSE delete_saved_credentials_write(
                               Begin(c), call.credentials, c)) :
              /\ credentials_file' = w.file
              /\ last' = [last EXCEPT !.calls[c].pc = "done",
                                       !.calls[c].write = w.store.write]
    /\ UNCHANGED <<user_data, login_conv, task_conv, buttons, clock>>

NextStore ==
    \/ \E c \in Chats : StoreRead(c)
    \/ \E c \in Chats : StoreWrite(c)

SpecStore == InitStore /\ [][NextStore]_vars

----------------------------------------------------------------------------
(* Properties *)

\* a step taken by a handler (the clock stands still), run for chat c
HandlerStep(c, op) == clock' = clock /\ last'.chat = c /\ last'.op = op

\* the store operation of the last run met no I/O failure
StoreOk(store) == store.read /\ store.write # "failed"

HasRecord(file, c) == c \in DOMAIN file.creds

(* C1: after a logout whose credential-store delete succeeded, the chat has
   no persisted record, its whole in-memory session is empty, the next
   is_authenticated returns false without sending a login request, and start
   answers with the unauthenticated welcome. *)
C1_LogoutResets ==
    (last.op = "logout" /\ StoreOk(last.store)) =>
        LET c == last.chat
        IN  /\ ~HasRecord(credentials_file, c)
            /\ user_data[c] = EmptyUserData
            /\ \A r \in is_authenticated(Begin(c), c) :
                  ~r.ret /\ Logins(r.w) = 0
            /\ \A w \in start(Begin(c), c) :
                  w.ev = <<"reply: welcome, need login">>

\* a logout has removed the chat's record from the file and emptied the session
C1_Witness ==
    /\ last.op = "logout"
    /\ last.store = [op |-> "delete", read |-> TRUE, write |-> "ok"]
    /\ user_data[last.chat] = EmptyUserData

(* C2: a step creates or changes the persisted record of a chat only if it is
   a login of that chat that the remote API answered with 200, made with
   exactly those credentials; a failed login attempt leaves the document
   as it was. *)
C2_RecordsOnlyFromSuccessfulLogin ==
    [][\A c \in Chats :
         (HasRecord(credentials_file', c)
          /\ (~HasRecord(credentials_file, c)
              \/ credentials_file'.creds[c] # credentials_file.creds[c]))
         => /\ HandlerStep(c, "login_password")
            /\ last'.auth = "ok"
            /\ credentials_file'.creds[c]
                 = Record(user_data'[c].username, user_data'[c].password)]_vars

(* C3: after any authenticate call that returned false, the session holds no
   auth token. *)
C3_FailedAuthClearsToken ==
    last.auth = "failed" => user_data[last.chat].vikunja_token = NONE

(* C4: get_all_projects_cached sends no request and returns the cached list
   when the entry is younger than 60 seconds; when the entry is absent or 60
   seconds old or older it sends exactly one GET /projects and, on success,
   replaces the entry with the fetched list and the current time. *)
C4_CacheTTL ==
    [][\A c \in Actors :
         (HandlerStep(c, "today") /\ last'.projects.called) =>
            LET cache == user_data[c].project_cache
                fresh == cache # EmptyDict
                         /\ clock - cache.timestamp < 60
                sent == Count(last'.ev, "GET /projects")
            IN  /\ fresh => /\ sent = 0
                            /\ last'.projects.ret = cache.data
                            /\ user_data'[c].project_cache = cache
                /\ ~fresh => /\ sent = 1
                             /\ last'.projects.fetch # "none"
                             /\ (last'.projects.fetch = "200" =>
                                   user_data'[c].project_cache
                                     = [data |-> last'.projects.ret,
                                        timestamp |-> clock])]_vars

\* a lookup 59 seconds after the fetch was served from the cache
C4_Witness ==
    /\ last.op = "today"
    /\ last.projects.called /\ last.projects.fetch = "none"
    /\ last.projects.ret # << >>
    /\ user_data[last.chat].project_cache # EmptyDict
    /\ clock - user_data[last.chat].project_cache.timestamp = 59

(* C5: when the cache entry is expired and the project fetch fails,
   get_all_projects_cached returns the previously cached list (the empty
   list only if nothing was cached). *)
C5_FailedFetchReturnsPrevious ==
    [][\A c \in Actors :
         (HandlerStep(c, "today") /\ last'.projects.called
          /\ last'.projects.fetch = "failed") =>
            LET cache == user_data[c].project_cache
            IN  last'.projects.ret
                  = IF cache = EmptyDict THEN << >> ELSE cache.data]_vars

(* C6: is_authenticated returns true iff the session holds a token when it
   returns; it sends a login request only when the session has no token and,
   after hydration from the credential store, has a username and a password,
   and then exactly one; with a token present it sends none. *)
C6_IsAuthenticated ==
    \A c \in Actors :
      \A r \in is_authenticated(Begin(c), c) :
         LET relogin == /\ user_data[c].vikunja_token = NONE
                        /\ r.w.ud.username # NONE
                        /\ r.w.ud.password # NONE
         IN  /\ r.ret <=> (r.w.ud.vikunja_token # NONE)
             /\ Logins(r.w) = IF relogin THEN 1 ELSE 0
             /\ (user_data[c].username = NONE /\ r.w.ud.username # NONE)
                  => /\ HasRecord(credentials_file, c)
                     /\ Record(r.w.ud.username, r.w.ud.password)
                          = credentials_file.creds[c]

\* the is_authenticated of a status command logged in again, with success
C6_Witness ==
    /\ last.op = "status"
    /\ last.isauth.called /\ last.isauth.logins = 1 /\ last.isauth.ret
    /\ user_data[last.chat].vikunja_token # NONE

(* C7: delete_saved_credentials, when its file accesses succeed: removes the
   file when the chat's record is the only one; removes exactly the chat's
   record and keeps every other record when there are several; changes
   nothing when the chat has no record. *)
C7_DeleteFrame ==
    [][\A c \in Actors :
         (HandlerStep(c, "logout") /\ StoreOk(last'.store)) =>
            LET old == credentials_file
                new == credentials_file'
            IN  /\ (DOMAIN old.creds = {c}) => new = NoFile
                /\ (HasRecord(old, c) /\ DOMAIN old.creds # {c}) =>
                      /\ new.exists
                      /\ DOMAIN new.creds = DOMAIN old.creds \ {c}
                      /\ \A o \in DOMAIN new.creds : new.creds[o] = old.creds[o]
                /\ ~HasRecord(old, c) => new = old]_vars

\* a logout removed the last record and with it the file
C7_Witness ==
    /\ last.op = "logout"
    /\ last.store = [op |-> "delete", read |-> TRUE, write |-> "ok"]
    /\ credentials_file = NoFile

(* C8: after save_credentials has written the document, the chat maps to
   exactly the saved username and password and every other chat's record is
   the same as before the save, also when the read inside save failed. *)
C8_SaveFrame ==
    [][\A c \in Actors :
         (HandlerStep(c, "login_password") /\ last'.store.op = "save"
          /\ last'.store.write = "ok") =>
            LET old == credentials_file
                new == credentials_file'
            IN  /\ new.exists
                /\ HasRecord(new, c)
                /\ new.creds[c] = Record(user_data'[c].username,
                                         user_data'[c].password)
                /\ \A o \in Chats \ {c} :
                      /\ HasRecord(new, o) <=> HasRecord(old, o)
                      /\ HasRecord(old, o) => new.creds[o] = old.creds[o]]_vars

(* C9: the login flow goes END -> LOGIN_USERNAME on the login command,
   LOGIN_USERNAME -> LOGIN_PASSWORD on a text message, which is kept as
   temp_username, and LOGIN_PASSWORD -> END on the next text message whatever
   the outcome of the authentication; temp_username is cleared then, and
   LOGIN_PASSWORD is entered from LOGIN_USERNAME only. *)
C9_LoginFlow ==
    [][\A c \in Actors :
         /\ HandlerStep(c, "login_start") =>
               login_conv[c] = END /\ login_conv'[c] = LOGIN_USERNAME
         /\ HandlerStep(c, "login_username") =>
               /\ login_conv[c] = LOGIN_USERNAME
               /\ login_conv'[c] = LOGIN_PASSWORD
               /\ user_data'[c].temp_username \in Usernames
         /\ HandlerStep(c, "login_password") =>
               /\ login_conv[c] = LOGIN_PASSWORD
               /\ login_conv'[c] = END
               /\ user_data'[c].temp_username = NONE
               /\ last'.auth \in {"ok", "failed"}
         /\ (login_conv[c] = END /\ login_conv'[c] # END) =>
               HandlerStep(c, "login_start")
         /\ (login_conv[c] # LOGIN_PASSWORD /\ login_conv'[c] = LOGIN_PASSWORD)
               => login_conv[c] = LOGIN_USERNAME
                  /\ HandlerStep(c, "login_username")
         /\ (login_conv[c] = END) => user_data[c].temp_username = NONE]_vars

\* a failed login has ended the flow
C9_Witness ==
    /\ last.op = "login_password" /\ last.auth = "failed"
    /\ Count(last.ev, "POST /login") = 1
    /\ login_conv[last.chat] = END
    /\ user_data[last.chat].temp_username = NONE

(* C10: for every message received in LOGIN_PASSWORD the deletion of the
   message is attempted first, before any login request; a deletion that
   fails prevents neither the authentication (the login request is sent
   whenever a username was entered) nor the transition to END. *)
C10_PasswordMessageDeletedFirst ==
    [][\A c \in Actors :
         HandlerStep(c, "login_password") =>
            LET ev == last'.ev
            IN  /\ Len(ev) >= 1
                /\ ev[1] \in {"delete message", "delete message failed"}
                /\ last'.auth # "none"
                /\ user_data[c].temp_username # NONE
                      => Count(ev, "POST /login") = 1
                /\ login_conv'[c] = END]_vars

\* the deletion failed and the login went on and succeeded
C10_Witness ==
    /\ last.op = "login_password"
    /\ last.ev = <<"delete message failed", "reply: authenticating",
                   "POST /login", "reply: logged in">>
    /\ login_conv[last.chat] = END

----------------------------------------------------------------------------
(* The task conversation's claims, checked under SpecTasks.                *)

\* how many events of ev are in the set xs
RECURSIVE CountIn(_, _)
CountIn(ev, xs) ==
    IF ev = << >> THEN 0
    ELSE (IF Head(ev) \in xs THEN 1 ELSE 0) + CountIn(Tail(ev), xs)

\* the requests that change a task
MarkDone(id) == "POST /tasks/" \o id \o " done"

Delete(id) == "DELETE /tasks/" \o id

SetDueDate(id, due) == "POST /tasks/" \o id \o " due_date=" \o due

Mutations ==
    UNION {{MarkDone(id), Delete(id), SetDueDate(id, "None"),
            SetDueDate(id, "today+1T23:59:59Z"),
            SetDueDate(id, "2025-02-31T23:59:59Z")}
           : id \in SelectIds \cup {NONE}}

\* C11: from every state in which a conversation is going on (LoginUsername,
\* LoginPassword, TaskListView, TaskEditView, TaskEditDue) a cancel clears
\* selectedTaskId, currentPage and tempUsername and leaves the controller
\* Idle: no conversation is going on any more.
C11_CancelLeavesIdle ==
    [][\A c \in Actors :
          (HandlerStep(c, "cancel")
             /\ (login_conv[c] # END \/ task_conv[c] # END)) =>
                /\ login_conv'[c] = END
                /\ task_conv'[c] = END
                /\ user_data'[c].selected_task_id = NONE
                /\ user_data'[c].task_page = << >>
                /\ user_data'[c].temp_username = NONE]_vars

\* C12: in TaskEditView 'mark done' and 'delete' each send exactly one
\* mutation request, for the selected task, and end the conversation;
\* 'back' goes to TaskListView and 'change due date' to TaskEditDue without
\* a mutation; any other edit action stays in TaskEditView.
C12_EditActions ==
    [][\A c \in Actors :
          (HandlerStep(c, "task_edit_callback")
             /\ task_conv[c] = TASK_EDIT_VIEW) =>
                LET action == last'.input[3]
                    id == user_data[c].selected_task_id
                    sent == CountIn(last'.ev, Mutations)
                IN  CASE action = "done" ->
                           /\ Count(last'.ev, MarkDone(id)) = 1 /\ sent = 1
                           /\ task_conv'[c] = END
                      [] action = "delete" ->
                           /\ Count(last'.ev, Delete(id)) = 1 /\ sent = 1
                           /\ task_conv'[c] = END
                      [] action = "back" ->
                           sent = 0 /\ task_conv'[c] = TASK_LIST_VIEW
                      [] action = "due" ->
                           sent = 0 /\ task_conv'[c] = TASK_EDIT_DUE
                      [] OTHER -> task_conv'[c] = TASK_EDIT_VIEW]_vars

\* C13: in TaskEditDue the text 'none' sends one update that clears the due
\* date and a text with a date sends one update with that date at the end
\* of the day, both going to TaskListView; a text without a date sends no
\* update, asks again and stays in TaskEditDue; no text makes the handler
\* raise, a malformed D/M/YYYY literal included.
C13_DueDateTexts ==
    [][\A c \in Actors :
          (HandlerStep(c, "handle_task_due_date_update")
             /\ task_conv[c] = TASK_EDIT_DUE) =>
                LET text == last'.input
                    id == user_data[c].selected_task_id
                    sent == CountIn(last'.ev, Mutations)
                IN  /\ Count(last'.ev, "exception") = 0
                    /\ CASE lower(text) = <<"n","o","n","e">> ->
                              /\ Count(last'.ev, SetDueDate(id, "None")) = 1
                              /\ sent = 1
                              /\ task_conv'[c] = TASK_LIST_VIEW
                         [] text = <<"t","o","m","o","r","r","o","w">> ->
                              /\ Count(last'.ev,
                                    SetDueDate(id, "today+1T23:59:59Z")) = 1
                              /\ sent = 1
                              /\ task_conv'[c] = TASK_LIST_VIEW
                         [] OTHER ->
                              /\ sent = 0
                              /\ Count(last'.ev, "reply: invalid date") = 1
                              /\ task_conv'[c] = TASK_EDIT_DUE]_vars

\* the number of pages of n tasks: n / TASKS_PER_PAGE, rounded up
Pages(n) ==
    CHOOSE k \in 0..n :
       k * TASKS_PER_PAGE >= n /\ (k - 1) * TASKS_PER_PAGE < n

\* C14: with N >= 1 active tasks and a page p, 0 <= p < ceil(N/5), the page
\* reports ceil(N/5) pages, lists the tasks 5p+1 .. min(5p+5, N) in order,
\* has 'prev' iff p > 0 and 'next' iff p < ceil(N/5) - 1; with no active
\* task the empty message is shown and no page is computed.
C14_Pagination ==
    /\ last.shown = EmptyPage => Count(last.ev, "reply: no active tasks") = 1
    /\ last.shown.rendered =>
          LET n == last.shown.count
              p == last.shown.page
          IN  /\ n >= 1
              /\ last.shown.total_pages = Pages(n)
              /\ p \in 0..(Pages(n) - 1) =>
                    /\ last.shown.tasks =
                          SubSeq(last.shown.active, 5 * p + 1,
                                 Min(5 * p + 5, n))
                    /\ last.shown.prev = (p > 0)
                    /\ last.shown.next = (p < Pages(n) - 1)

\* C15: no request for projects or tasks is sent for a chat whose session
\* holds no token, whatever came before (a logout or a cancel in the middle
\* of the task flow included), and /tasks from a chat that is not
\* authenticated leaves the conversation ended.
C15_NoRequestWithoutToken ==
    [][\A c \in Actors :
          (clock' = clock /\ last'.chat = c) =>
             /\ Count(last'.ev, "no Authorization") = 0
             /\ (last'.op = "list_tasks" /\ ~last'.isauth.ret) =>
                   task_conv'[c] = END]_vars

\* what the user gets to see: the replies and the edited messages
Messages ==
    {"edit: enter due date", "edit: error", "edit: failed to fetch task",
     "edit: failed to mark as done", "edit: marked as done",
     "edit: need login", "edit: operation failed", "edit: task deleted",
     "edit: task marked as done", "edit: task menu", "edit: task page",
     "reply: all tasks completed", "reply: authenticating",
     "reply: authentication failed", "reply: canceled",
     "reply: cannot connect", "reply: connected", "reply: due date updated",
     "reply: enter password", "reply: enter username",
     "reply: error fetching tasks", "reply: error",
     "reply: failed to create task", "reply: failed to update due date",
     "reply: invalid date", "reply: logged in", "reply: logged out",
     "reply: need login", "reply: no active tasks", "reply: no projects",
     "reply: no tasks today", "reply: not logged in", "reply: quick list",
     "reply: task created", "reply: task page", "reply: tasks due today",
     "reply: welcome, logged in", "reply: welcome, need login"}

\* C16: every handler ends with a message to the user and lets no exception
\* escape, whatever the remote calls and the credential file do: also when
\* the task page is rendered from a button with no active task or a failed
\* fetch, and when an edit action comes after user_data was cleared.
C16_NoExceptionEscapes ==
    last.op # "none" =>
        /\ Count(last.ev, "exception") = 0
        /\ CountIn(last.ev, Messages) >= 1

----------------------------------------------------------------------------
(* The aggregator's claim, checked under SpecList.                         *)

\* the tasks of the projects whose request was answered with status 200
RECURSIVE Answered(_)
Answered(fetches) ==
    IF fetches = << >> THEN << >>
    ELSE (IF Head(fetches).outcome = "200"
          THEN [i \in DOMAIN Head(fetches).tasks |->
                   [id |-> Head(fetches).tasks[i].id,
                    done |-> Head(fetches).tasks[i].done,
                    project_id |-> Head(fetches).project_id]]
          ELSE << >>) \o Answered(Tail(fetches))

\* C17: whichever projects fail to give their tasks (an error status, a
\* transport error or a timeout), the listing returns exactly the tasks not
\* done of the other projects, each with its project id, in project order;
\* a failing project never makes the listing fail.
C17_FailingProjectsSkipped ==
    last.op = "get_active_tasks_from_projects" =>
        /\ ~last.raised
        /\ last.ret = SelectSeq(Answered(last.fetches), LAMBDA t : ~t.done)

----------------------------------------------------------------------------
(* The quick add's claim, checked under SpecQuick.                         *)

\* C18: the project of a task added by a text is the cached project whose
\* title is the parsed name, ignoring case; otherwise the first project of
\* the cached list; otherwise project 1.  A name that matches no cached
\* project falls back to the first cached project before project 1.
C18_ProjectOfNewTask ==
    (last.op = "handle_plain_message" /\ last.isauth.ret) =>
        \A name \in {parse_vikunja_task_format(last.input, 0).project} :
           LET cached == last.projects.ret
               hits == SelectSeq(cached,
                           LAMBDA proj : lower(proj.title) = lower(name))
               project_id == IF name # << >> /\ hits # << >> THEN hits[1].id
                             ELSE IF cached # << >> THEN cached[1].id
                             ELSE 1
           IN  Count(last.ev,
                     "PUT /projects/" \o str(project_id) \o "/tasks") = 1

----------------------------------------------------------------------------
(* The parser's claims, checked under SpecParse.                           *)

OfKind(pieces, kind) == SelectSeq(pieces, LAMBDA p : p.kind = kind)

\* what a date phrase means on a day whose weekday is wd
PhraseDate(d, wd) ==
    CASE d = D_today -> InDays(0)
      [] d = D_tomorrow -> InDays(1)
      [] d = D_next_monday -> InDays(CHOOSE n \in 1..7 : (wd + n) % 7 = 0)
      [] d = D_in_3_days -> InDays(3)
      [] d = D_in_2_weeks -> InDays(14)
      [] d = D_christmas -> [kind |-> "date", y |-> 2025, m |-> 12, d |-> 25]

\* C19: the parse of title words with one priority marker, label markers,
\* one project marker and one date phrase, in any order, returns that
\* priority, the labels in order, that project, the date of the phrase and
\* as title the title words joined by single spaces, no marker left.
C19_ParseMarkedText ==
    (last.op = "parse" /\ last.pieces \in MarkedTexts) =>
        LET pieces == last.pieces
            labels == OfKind(pieces, "label")
        IN  /\ ~last.parsed.raised
            /\ last.parsed.priority = OfKind(pieces, "priority")[1].digit
            /\ last.parsed.labels = [i \in DOMAIN labels |-> labels[i].val]
            /\ last.parsed.project = OfKind(pieces, "project")[1].val
            /\ last.parsed.due_date =
                  PhraseDate(OfKind(pieces, "date")[1], last.today_wd)
            /\ last.parsed.title = TextOf(OfKind(pieces, "word"))

\* 'Buy milk !2 *errands +Home tomorrow' has been parsed
C19_Witness ==
    /\ last.op = "parse"
    /\ last.pieces = <<W_Buy, W_milk, M_prio, M_errands, M_Home, D_tomorrow>>
    /\ last.parsed.title = <<"B","u","y"," ","m","i","l","k">>
    /\ last.parsed.priority = 2
    /\ last.parsed.labels = << <<"e","r","r","a","n","d","s">> >>
    /\ last.parsed.project = <<"H","o","m","e">>
    /\ last.parsed.due_date = InDays(1)

\* the date phrase of a text whose pattern comes first in date_patterns
FirstListed(pieces) ==
    LET ds == OfKind(pieces, "date")
    IN  CHOOSE i \in DOMAIN pieces :
           /\ pieces[i].kind = "date"
           /\ \A j \in DOMAIN ds : pieces[i].k <= ds[j].k

\* C20: when phrases of several date patterns are in the text, the due date
\* is that of the pattern first in the list, wherever the phrases stand;
\* that phrase alone is removed and the other one stays in the title.
C20_FirstPatternWins ==
    (last.op = "parse" /\ last.pieces \in TwoDateTexts) =>
        LET pieces == last.pieces
            i == FirstListed(pieces)
        IN  /\ last.parsed.due_date = PhraseDate(pieces[i], last.today_wd)
            /\ last.parsed.title =
                  TextOf(SubSeq(pieces, 1, i - 1)
                         \o SubSeq(pieces, i + 1, Len(pieces)))

\* 'meeting in 3 days next Monday' is due next Monday, 'in 3 days' stays
C20_Witness ==
    /\ last.op = "parse"
    /\ last.pieces = <<W_meeting, D_in_3_days, D_next_monday>>
    /\ last.today_wd = 2
    /\ last.parsed.due_date = InDays(5)
    /\ last.parsed.title = <<"m","e","e","t","i","n","g"," ","i","n"," ","3"," ","d","a","y","s">>

\* C21: the parser is total: whatever the text, also one with a D/M/YYYY
\* literal whose day or month is out of range (31/02/2025, 99/99/2025) or
\* with 'in N days' for a very large N, it returns the parsed data and
\* raises nothing.
C21_ParseTotal ==
    last.op = "parse" => ~last.parsed.raised

\* C22: the title that the parser returns holds no marker any more: parsed
\* again it gives no label, no priority and no project, also when the text
\* had more than one priority marker or more than one project marker.
C22_TitleHasNoMarkers ==
    (last.op = "parse" /\ ~last.parsed.raised) =>
        \A again \in {parse_vikunja_task_format(last.parsed.title,
                                                last.today_wd)} :
           /\ again.labels = << >>
           /\ again.priority = 0
           /\ again.project = << >>

----------------------------------------------------------------------------
(* Claims on the sessions of the chats and on the two conversations.       *)

\* the session fields, cache and conversation states of chat o are the same
\* after the step as before it
SessionUnchanged(o) ==
    /\ user_data'[o] = user_data[o]
    /\ login_conv'[o] = login_conv[o]
    /\ task_conv'[o] = task_conv[o]
    /\ buttons'[o] = buttons[o]

\* so is the persisted record of chat o
RecordUnchanged(o) ==
    /\ HasRecord(credentials_file', o) <=> HasRecord(credentials_file, o)
    /\ HasRecord(credentials_file, o) =>
          credentials_file'.creds[o] = credentials_file.creds[o]

\* C23: every operation performed for one chat (login, logout, cancel,
\* project fetch, task browsing and editing, quick add) leaves the session
\* fields, the project cache, the conversation state and the persisted
\* record of every other chat as they were.
C23_OtherChatsUntouched ==
    [][\A c \in Actors :
          (clock' = clock /\ last'.chat = c) =>
             \A o \in Chats \ {c} :
                SessionUnchanged(o) /\ RecordUnchanged(o)]_vars

\* C24: in every reachable state each record of the credentials file is
\* exactly a username and a password, as typed at a login; no token is
\* written to the file, whatever logins, re-authentications and logouts
\* came before.
C24_NoTokenPersisted ==
    \A c \in DOMAIN credentials_file.creds :
       LET record == credentials_file.creds[c]
       IN  /\ DOMAIN record = {"username", "password"}
           /\ record.username \in Usernames
           /\ record.password \in Passwords
           /\ \A u \in Usernames :
                 TokenOf(u) \notin {record.username, record.password}

\* a login has written the record of a chat whose session holds a token
C24_Witness ==
    /\ last.op = "login_password"
    /\ last.store = [op |-> "save", read |-> TRUE, write |-> "ok"]
    /\ last.auth = "ok"
    /\ HasRecord(credentials_file, last.chat)
    /\ user_data[last.chat].vikunja_token = TokenOf(user_data[last.chat].username)

\* C25: a cancel changes the conversation fields (selected_task_id,
\* task_page, temp_username) and nothing else: the token, the username, the
\* password and the project cache of the session, and the persisted record
\* of the chat, are the same after the cancel as before it.
C25_CancelKeepsSession ==
    [][\A c \in Actors :
          HandlerStep(c, "cancel") =>
             /\ user_data'[c].vikunja_token = user_data[c].vikunja_token
             /\ user_data'[c].username = user_data[c].username
             /\ user_data'[c].password = user_data[c].password
             /\ user_data'[c].project_cache = user_data[c].project_cache
             /\ RecordUnchanged(c)]_vars

\* C26: in every reachable state a token held by a session is the token
\* that the remote login returned for the username and password now in
\* the session; a login with new credentials that fails does not leave the
\* token of the earlier account next to the new credentials.
C26_TokenOfSessionCredentials ==
    \A c \in Actors :
       user_data[c].vikunja_token # NONE =>
          /\ user_data[c].username \in Usernames
          /\ user_data[c].password \in Passwords
          /\ user_data[c].vikunja_token = TokenOf(user_data[c].username)

\* C27: a project cache entry kept in a session was fetched for the account
\* the session is logged in as: a step that logs the session in as another
\* account (no logout in between) does not keep the entry of the account
\* before, so that its project list is never served to the new account.
C27_CacheOfSessionAccount ==
    [][\A c \in Actors :
          (/\ user_data[c].vikunja_token # NONE
           /\ user_data'[c].vikunja_token # NONE
           /\ user_data'[c].vikunja_token # user_data[c].vikunja_token
           /\ user_data[c].project_cache # EmptyDict
           /\ user_data[c].project_cache.data # << >>)
          => user_data'[c].project_cache # user_data[c].project_cache]_vars

\* C28: whenever the task conversation is in TASK_EDIT_VIEW or
\* TASK_EDIT_DUE, selected_task_id is the task that was selected in the
\* list, whatever came before, a logout in the middle of the task flow
\* included; a logout leaves no conversation going on.
C28_SelectedTaskInEdit ==
    [][\A c \in Actors :
          /\ task_conv'[c] \in {TASK_EDIT_VIEW, TASK_EDIT_DUE} =>
                user_data'[c].selected_task_id \in SelectIds
          /\ HandlerStep(c, "logout") =>
                login_conv'[c] = END /\ task_conv'[c] = END]_vars

\* C29: every task page rendered with N >= 1 active tasks has a page index
\* p with 0 <= p < ceil(N/5) and lists at least one task, also when the
\* number of active tasks went down between two renders or a prev / next
\* button of an earlier page is pressed.
C29_PageInRange ==
    last.shown.rendered =>
        /\ last.shown.page >= 0
        /\ last.shown.page < Pages(last.shown.count)
        /\ last.shown.tasks # << >>

\* C30: a chat is in one conversation state at a time: the login flow and
\* the task flow are never both going on for a chat, so that no text is
\* awaited by the two at once.
C30_OneConversation ==
    \A c \in Actors : login_conv[c] = END \/ task_conv[c] = END

----------------------------------------------------------------------------
(* The credential store's claim for two chats, checked under SpecStore.    *)

\* C31: when a save for one chat runs at the same time as a save or a
\* delete for another chat, then, however their reads and writes follow
\* one another, the document at the end shows both: a record that one of
\* them has written is there, and a record that one of them has removed is
\* not.
C31_BothOperationsKept ==
    (last.op = "store" /\ \A c \in Chats : last.calls[c].pc = "done") =>
        \A c \in Chats :
           LET call == last.calls[c]
           IN  /\ (call.kind = "save" /\ call.write = "ok") =>
                     /\ HasRecord(credentials_file, c)
                     /\ credentials_file.creds[c]
                          = Record(call.username, call.password)
               /\ (call.kind = "delete" /\ call.write = "ok") =>
                     ~HasRecord(credentials_file, c)

====
